---------------------------- MODULE Spec2Model ----------------------------
(***************************************************************************)
(* A model of javac_compiler_properties_parser.py: the line-oriented       *)
(* parser of javac's compiler.properties file.                             *)
(*                                                                         *)
(* A Python str is modelled as a sequence of one-character strings, so     *)
(* that "k=\\" (three characters) is <<"k", "=", "\\">>.  The str methods  *)
(* and the regular expressions the parser uses are operators over such     *)
(* sequences, computed the way Python computes them.  The parser itself    *)
(* is a state machine: one action per method of class Parser, and one      *)
(* step of the action `value` per iteration of its while loop.             *)
(***************************************************************************)
EXTENDS Integers, Sequences, FiniteSets, TLC

(***************************************************************************)
(* Bounds of the model.                                                    *)
(***************************************************************************)
\* The longest input (number of raw lines) the specifications draw.
MaxLines == 3

\* The iterations of the `value` loop the model follows for one message.
\* An input of n lines feeds at most n iterations unless the loop goes
\* round without consuming a line; two more are enough to see that.
MaxChunks == MaxLines + 2

(***************************************************************************)
(* Characters and character classes (str.isalpha, str.isspace, \d, \s,     *)
(* and the class [0-9a-zA-Z] of the unicode-escape pattern).               *)
(***************************************************************************)
BSLASH == "\\"
QUOTE == "'"
DQUOTE == "\""
TAB == "\t"
NEWLINE == "\n"

LowerCase ==
  {"a","b","c","d","e","f","g","h","i","j","k","l","m",
   "n","o","p","q","r","s","t","u","v","w","x","y","z"}

UpperCase ==
  {"A","B","C","D","E","F","G","H","I","J","K","L","M",
   "N","O","P","Q","R","S","T","U","V","W","X","Y","Z"}

Digits == <<"0","1","2","3","4","5","6","7","8","9">>

isalpha(c) == c \in LowerCase \cup UpperCase

isdigit(c) == \E i \in 1..10 : Digits[i] = c

isspace(c) == c \in {" ", TAB, NEWLINE, "\r", "\f"}

isalnum(c) == isalpha(c) \/ isdigit(c)

\* The value of one decimal digit.
DigitVal(c) == (CHOOSE i \in 1..10 : Digits[i] = c) - 1

HexLetters == <<"a","b","c","d","e","f">>

HexUpper == <<"A","B","C","D","E","F">>

ishex(c) == isdigit(c) \/ \E i \in 1..6 : HexLetters[i] = c \/ HexUpper[i] = c

HexVal(c) ==
  IF isdigit(c) THEN DigitVal(c)
  ELSE 9 + (CHOOSE i \in 1..6 : HexLetters[i] = c \/ HexUpper[i] = c)

\* The code points of the characters the inputs are written in.
CodePoints ==
  << <<TAB, 9>>, <<NEWLINE, 10>>, <<" ", 32>>, <<DQUOTE, 34>>, <<"#", 35>>,
     <<QUOTE, 39>>, <<"(", 40>>, <<")", 41>>, <<"+", 43>>, <<",", 44>>,
     <<"-", 45>>, <<".", 46>>, <<"0", 48>>, <<"1", 49>>, <<"2", 50>>,
     <<":", 58>>, <<"=", 61>>, <<BSLASH, 92>>, <<"_", 95>>, <<"a", 97>>,
     <<"j", 106>>, <<"k", 107>>, <<"n", 110>>, <<"q", 113>>, <<"t", 116>>, <<"u", 117>>,
     <<"{", 123>>, <<"}", 125>> >>

\* chr(): the character of a code point.  A code point outside CodePoints
\* is the character "U+<n>", which is in no character class above.
chr(n) ==
  IF \E i \in 1..Len(CodePoints) : CodePoints[i][2] = n
  THEN CodePoints[CHOOSE i \in 1..Len(CodePoints) : CodePoints[i][2] = n][1]
  ELSE "U+" \o ToString(n)

(***************************************************************************)
(* Python's str methods.                                                   *)
(***************************************************************************)
startswith(s, p) == Len(s) >= Len(p) /\ SubSeq(s, 1, Len(p)) = p

endswith(s, p) == Len(s) >= Len(p) /\ SubSeq(s, Len(s) - Len(p) + 1, Len(s)) = p

removeprefix(s, p) == IF startswith(s, p) THEN SubSeq(s, Len(p) + 1, Len(s)) ELSE s

removesuffix(s, p) == IF endswith(s, p) THEN SubSeq(s, 1, Len(s) - Len(p)) ELSE s

RECURSIVE lstrip(_)
lstrip(s) == IF s # <<>> /\ isspace(Head(s)) THEN lstrip(Tail(s)) ELSE s

RECURSIVE rstrip(_)
rstrip(s) ==
  IF s # <<>> /\ isspace(s[Len(s)]) THEN rstrip(SubSeq(s, 1, Len(s) - 1)) ELSE s

strip(s) == lstrip(rstrip(s))

\* str.find(c) for a one-character c: the first index (1-based) or 0.
find(s, c) ==
  IF \E i \in 1..Len(s) : s[i] = c
  THEN CHOOSE i \in 1..Len(s) : s[i] = c /\ \A j \in 1..(i - 1) : s[j] # c
  ELSE 0

\* `c in s` for a one-character c.
contains(s, c) == find(s, c) # 0

\* A partition that reports a separator found even when there is none.
partition_always(s, c) ==
  LET i == find(s, c)
  IN IF i = 0 THEN <<s, <<c>>, <<>>>>
     ELSE <<SubSeq(s, 1, i - 1), <<c>>, SubSeq(s, i + 1, Len(s))>>

\* str.partition(c): <<before, separator, after>>, split at the first c.
partition(s, c) ==
  LET i == find(s, c)
  IN IF i = 0 THEN <<s, <<>>, <<>>>>
     ELSE <<SubSeq(s, 1, i - 1), <<c>>, SubSeq(s, i + 1, Len(s))>>

\* str.split(c): the pieces between the occurrences of c.
RECURSIVE split(_, _)
split(s, c) ==
  LET i == find(s, c)
  IN IF i = 0 THEN <<s>>
     ELSE <<SubSeq(s, 1, i - 1)>> \o split(SubSeq(s, i + 1, Len(s)), c)

\* str.replace(old, new): the non-overlapping occurrences, left to right.
RECURSIVE replace(_, _, _)
replace(s, old, new) ==
  IF s = <<>> THEN <<>>
  ELSE IF startswith(s, old)
       THEN new \o replace(SubSeq(s, Len(old) + 1, Len(s)), old, new)
       ELSE <<Head(s)>> \o replace(Tail(s), old, new)

\* "".join(chunks)
RECURSIVE join(_)
join(chunks) == IF chunks = <<>> THEN <<>> ELSE Head(chunks) \o join(Tail(chunks))

\* int() of a run of decimal digits.
RECURSIVE int_digits(_)
int_digits(s) ==
  IF s = <<>> THEN 0 ELSE 10 * int_digits(SubSeq(s, 1, Len(s) - 1)) + DigitVal(s[Len(s)])

\* int(s, 16) of a run of hexadecimal digits.
RECURSIVE int_hex(_)
int_hex(s) ==
  IF s = <<>> THEN 0 ELSE 16 * int_hex(SubSeq(s, 1, Len(s) - 1)) + HexVal(s[Len(s)])

\* str() of a non-negative int.
RECURSIVE str_int(_)
str_int(n) ==
  IF n < 10 THEN <<Digits[n + 1]>> ELSE str_int(n \div 10) \o <<Digits[(n % 10) + 1]>>


(***************************************************************************)
(* Results of operations that may raise: exc is "" or the exception class, *)
(* val the value returned, or the text the exception carries.              *)
(***************************************************************************)
Ok(v) == [exc |-> "", val |-> v]

Raise(e, v) == [exc |-> e, val |-> v]

\* Placeholder.type_ / Placeholder.comment when unset.  No str is equal to
\* it: every element of a modelled str is a single character.
None == <<"None">>

(***************************************************************************)
(* Parser.line: the logical line of a raw line.                            *)
(***************************************************************************)
\* Whether the pattern \\u([0-9a-zA-Z]{4}) matches at the start of s.
unicode_match(s) ==
  /\ Len(s) >= 6
  /\ s[1] = BSLASH
  /\ s[2] = "u"
  /\ \A i \in 3..6 : isalnum(s[i])

\* unescape_unicode(m): chr(int(m[1], 16)); int raises ValueError on a
\* group that is not all hexadecimal digits.
unescape_unicode(group) ==
  IF \A i \in 1..Len(group) : ishex(group[i])
  THEN Ok(<<chr(int_hex(group))>>)
  ELSE IF group[1] = "0" /\ group[2] \in {"x", "X"} /\ ishex(group[3]) /\ ishex(group[4])
       THEN Ok(<<chr(int_hex(SubSeq(group, 3, 4)))>>)  \* int accepts the 0x prefix
       ELSE Raise("ValueError", group)

\* re.sub(r"\\u([0-9a-zA-Z]{4})", unescape_unicode, s): the matches are
\* replaced left to right; the first one that raises ends the call.
RECURSIVE sub_unicode(_)
sub_unicode(s) ==
  IF s = <<>> THEN Ok(<<>>)
  ELSE IF unicode_match(s)
       THEN LET u == unescape_unicode(SubSeq(s, 3, 6))
                r == sub_unicode(SubSeq(s, 7, Len(s)))
            IN IF u.exc # "" THEN u
               ELSE IF r.exc # "" THEN r
               ELSE Ok(u.val \o r.val)
       ELSE LET r == sub_unicode(Tail(s))
            IN IF r.exc # "" THEN r ELSE Ok(<<Head(s)>> \o r.val)

\* The body of the property Parser.line, for a raw line: trailing
\* whitespace removed, then the \uXXXX escapes replaced.
logical_line(raw) == sub_unicode(rstrip(raw))

(***************************************************************************)
(* Parser.value: the escapes of one chunk, and the join of the chunks.     *)
(***************************************************************************)
\* replace_escape(match_) for the character after the backslash.
replace_escape(c) ==
  CASE c = "n" -> Ok(<<NEWLINE>>)
    [] c = "t" -> Ok(<<TAB>>)
    [] c = QUOTE -> Ok(<<QUOTE>>)
    [] c = DQUOTE -> Ok(<<DQUOTE>>)
    [] OTHER -> Raise("ParseError", <<BSLASH, c>>)

\* re.sub(r"\\(.)", replace_escape, chunk): `.` is any character but a
\* newline; a backslash that ends the chunk matches nothing and stays.
RECURSIVE sub_escape(_)
sub_escape(s) ==
  IF s = <<>> THEN Ok(<<>>)
  ELSE IF Len(s) >= 2 /\ s[1] = BSLASH /\ s[2] # NEWLINE
       THEN LET e == replace_escape(s[2])
                r == sub_escape(SubSeq(s, 3, Len(s)))
            IN IF e.exc # "" THEN e
               ELSE IF r.exc # "" THEN r
               ELSE Ok(e.val \o r.val)
       ELSE LET r == sub_escape(Tail(s))
            IN IF r.exc # "" THEN r ELSE Ok(<<Head(s)>> \o r.val)

\* chunk = self.line.lstrip().removesuffix("\\"), then its escapes.
value_chunk(l) == sub_escape(removesuffix(lstrip(l), <<BSLASH>>))

\* The continuation test made on the chunk, whose backslash is removed.
has_continuation_of_chunk(l) == endswith(removesuffix(l, <<BSLASH>>), <<BSLASH>>)

\* has_continuation = self.line.endswith("\\")
has_continuation(l) == endswith(l, <<BSLASH>>)

\* The chunks joined, with their doubled quotes left as they are.
value_join_uncollapsed(chunks) == join(chunks)

\* "".join(value_chunks).replace("''", "'")
value_join(chunks) == replace(join(chunks), <<QUOTE, QUOTE>>, <<QUOTE>>)

(***************************************************************************)
(* Placeholder and Message.                                                *)
(***************************************************************************)
\* Placeholder(index, type_, comment), as an item of Message.components.
Placeholder(index, type_, comment) ==
  [kind |-> "Placeholder", index |-> index, type_ |-> type_, comment |-> comment]

\* A str item of Message.components.
Text(s) == [kind |-> "str", text |-> s]

\* isinstance(item, Placeholder)
is_placeholder(item) == item.kind = "Placeholder"

\* Message(name=name, components=components)
Message(name, components) == [name |-> name, components |-> components]

\* A rendering of a placeholder that leaves its braces out.
str_item_unbraced(item) ==
  IF is_placeholder(item) THEN str_int(item.index) ELSE item.text

\* Placeholder.__str__ and str.__str__: str(item) for a component.
str_item(item) ==
  IF is_placeholder(item) THEN <<"{">> \o str_int(item.index) \o <<"}">> ELSE item.text

\* Message.__str__ (and Message.text): "".join(str(item) for item in components)
RECURSIVE str_components(_)
str_components(components) ==
  IF components = <<>> THEN <<>>
  ELSE str_item(Head(components)) \o str_components(Tail(components))

text(m) == str_components(m.components)

\* Message.level: the level, or the exception the unpacking of
\* name.split(".") or the assert raises.
level(m) ==
  LET parts == split(m.name, ".")
  IN IF Len(parts) < 2 THEN Raise("ValueError", m.name)
     ELSE IF parts[1] # <<"c", "o", "m", "p", "i", "l", "e", "r">>
          THEN Raise("AssertionError", m.name)
          ELSE Ok(parts[2])

\* The placeholders of components keyed by position, not by index.
placeholders_by_position(components) ==
  LET at == {i \in 1..Len(components) : is_placeholder(components[i])}
  IN [i \in at |-> components[i]]

\* The dict comprehension of Message.placeholders: index -> the last
\* Placeholder of components with that index.
unique_placeholders(components) ==
  LET at == {i \in 1..Len(components) : is_placeholder(components[i])}
      keys == {components[i].index : i \in at}
      last(k) == CHOOSE i \in at :
                   /\ components[i].index = k
                   /\ \A j \in at : components[j].index = k => j <= i
  IN [k \in keys |-> components[last(k)]]

\* sorted(d.values(), key=lambda p: p.index): the values of a dict,
\* smallest index first; values of equal index keep the order of the keys.
RECURSIVE sorted_values(_)
sorted_values(d) ==
  IF DOMAIN d = {} THEN <<>>
  ELSE LET k == CHOOSE k \in DOMAIN d :
                  \A j \in DOMAIN d :
                    \/ d[k].index < d[j].index
                    \/ d[k].index = d[j].index /\ k <= j
       IN <<d[k]>> \o sorted_values([j \in DOMAIN d \ {k} |-> d[j]])

\* Message.placeholders
placeholders(m) == sorted_values(unique_placeholders(m.components))

\* Message.n_placeholders
n_placeholders(m) == Len(placeholders(m))

(***************************************************************************)
(* parse_annotation: the comment lines above a message -> {index: type}.   *)
(***************************************************************************)
\* The number of characters from index i of s on that satisfy the class.
RECURSIVE space_run(_, _)
space_run(s, i) == IF i <= Len(s) /\ isspace(s[i]) THEN 1 + space_run(s, i + 1) ELSE 0

RECURSIVE digit_run(_, _)
digit_run(s, i) == IF i <= Len(s) /\ isdigit(s[i]) THEN 1 + digit_run(s, i + 1) ELSE 0

\* The d dict with d[k] = v.
dict_set(d, k, v) == [j \in DOMAIN d \cup {k} |-> IF j = k THEN v ELSE d[j]]

\* int(s) for a str: surrounding whitespace and a sign are accepted, and
\* single underscores between digits; anything else raises ValueError.
py_int(s) ==
  LET t == strip(s)
      signed == t # <<>> /\ t[1] \in {"+", "-"}
      body == IF signed THEN Tail(t) ELSE t
      wellformed ==
        /\ body # <<>>
        /\ isdigit(body[1])
        /\ isdigit(body[Len(body)])
        /\ \A i \in 1..Len(body) : isdigit(body[i]) \/ body[i] = "_"
        /\ \A i \in 1..(Len(body) - 1) : ~(body[i] = "_" /\ body[i + 1] = "_")
      digits == SelectSeq(body, isdigit)
  IN IF ~wellformed THEN Raise("ValueError", s)
     ELSE IF signed /\ t[1] = "-" THEN Ok(0 - int_digits(digits))
     ELSE Ok(int_digits(digits))

\* re.match(r"#\s+{(\d+)}\s+-\s+(.+)$", line): <<>> when there is no match,
\* else <<index, comment>>.  The last \s+ gives back whitespace when the
\* group (.+) would otherwise be empty; `.` is any character but a newline.
long_comment_match(l) ==
  LET w1 == space_run(l, 2)
      b == 2 + w1                          \* where "{" must be
      nd == digit_run(l, b + 1)
      c == b + 1 + nd                      \* where "}" must be
      w2 == space_run(l, c + 1)
      m == c + 1 + w2                      \* where "-" must be
      w3 == space_run(l, m + 1)
      tail(k) == SubSeq(l, m + 1 + k, Len(l))
      group(k) == removesuffix(tail(k), <<NEWLINE>>)
      fits(k) == group(k) # <<>> /\ ~contains(group(k), NEWLINE)
  IN IF /\ l # <<>> /\ l[1] = "#"
        /\ w1 >= 1
        /\ b <= Len(l) /\ l[b] = "{"
        /\ nd >= 1
        /\ c <= Len(l) /\ l[c] = "}"
        /\ w2 >= 1
        /\ m <= Len(l) /\ l[m] = "-"
        /\ \E k \in 1..w3 : fits(k)
     THEN LET k == CHOOSE k \in 1..w3 : fits(k) /\ \A j \in 1..w3 : fits(j) => j <= k
          IN <<int_digits(SubSeq(l, b + 1, c - 1)), group(k)>>
     ELSE <<>>

\* long_placeholder_comments, from the lines before the last one.
RECURSIVE long_placeholder_comments(_)
long_placeholder_comments(ls) ==
  IF ls = <<>> THEN <<>>
  ELSE LET d == long_placeholder_comments(SubSeq(ls, 1, Len(ls) - 1))
           m == long_comment_match(ls[Len(ls)])
       IN IF m = <<>> THEN d ELSE dict_set(d, m[1], m[2])

\* A loop that skips a declaration it cannot read and keeps the others.
RECURSIVE declared_types_salvaged(_, _)

\* A declaration whose long-form comment, when there is one, is preferred
\* to its parenthetical.
declaration_long_first(decl, long_comments) ==
  LET p == partition(strip(decl), ":")
      index == py_int(p[1])
      q == partition(p[3], "(")
      type_str == strip(q[1])
      comment == IF index.val \in DOMAIN long_comments THEN long_comments[index.val]
                 ELSE IF q[2] = <<"(">> THEN removesuffix(rstrip(q[3]), <<")">>)
                 ELSE None
  IN IF p[2] # <<":">> THEN Raise("malformed", decl)
     ELSE IF index.exc # "" THEN Raise("not an annotation", decl)
     ELSE Ok(Placeholder(index.val, type_str, comment))

\* One `index: type (comment)` declaration of the annotation line: the
\* Placeholder it declares, or the reason the annotation is dropped.
declaration(decl, long_comments) ==
  LET p == partition(strip(decl), ":")
      index == py_int(p[1])
      q == partition(p[3], "(")
      type_str == strip(q[1])
      comment == IF q[2] = <<"(">> THEN removesuffix(rstrip(q[3]), <<")">>)
                 ELSE IF index.val \in DOMAIN long_comments
                      THEN long_comments[index.val] ELSE None
  IN IF p[2] # <<":">> THEN Raise("malformed", decl)
     ELSE IF index.exc # "" THEN Raise("not an annotation", decl)
     ELSE Ok(Placeholder(index.val, type_str, comment))

declared_types_salvaged(decls, long_comments) ==
  IF decls = <<>> THEN Ok(<<>>)
  ELSE LET before == declared_types_salvaged(SubSeq(decls, 1, Len(decls) - 1), long_comments)
           d == declaration(decls[Len(decls)], long_comments)
       IN IF d.exc # "" THEN before
          ELSE Ok(dict_set(before.val, d.val.index, d.val))

\* The loop over annotation_line.split(","): `types` after the
\* declarations decls, or the first reason to return {}.
RECURSIVE declared_types(_, _)
declared_types(decls, long_comments) ==
  IF decls = <<>> THEN Ok(<<>>)
  ELSE LET before == declared_types(SubSeq(decls, 1, Len(decls) - 1), long_comments)
           d == declaration(decls[Len(decls)], long_comments)
       IN IF before.exc # "" THEN before
          ELSE IF d.exc # "" THEN d
          ELSE Ok(dict_set(before.val, d.val.index, d.val))

parse_annotation(ls) ==
  IF Len(ls) = 0 THEN <<>>
  ELSE LET annotation_line == lstrip(removeprefix(ls[Len(ls)], <<"#">>))
           types == declared_types(split(annotation_line, ","),
                      long_placeholder_comments(SubSeq(ls, 1, Len(ls) - 1)))
       IN IF ~contains(annotation_line, ":") THEN <<>>
          ELSE IF types.exc # "" THEN <<>>
          ELSE types.val

(***************************************************************************)
(* Parser.make_components.                                                 *)
(***************************************************************************)
\* The match of {(\d*)}: braces with no digit between them match too.
placeholder_match_no_digit(s, i) ==
  LET nd == digit_run(s, i + 1)
  IN IF /\ i <= Len(s) /\ s[i] = "{"
        /\ i + nd + 1 <= Len(s) /\ s[i + nd + 1] = "}"
     THEN nd + 2 ELSE 0

\* The length of the match of {(\d+)} at index i of s, or 0.
placeholder_match(s, i) ==
  LET nd == digit_run(s, i + 1)
  IN IF /\ i <= Len(s) /\ s[i] = "{"
        /\ nd >= 1
        /\ i + nd + 1 <= Len(s) /\ s[i + nd + 1] = "}"
     THEN nd + 2 ELSE 0

\* A lookup whose default has empty texts where None is meant.
lookup_placeholder_blank(types, index) ==
  IF index \in DOMAIN types THEN types[index] ELSE Placeholder(index, <<>>, <<>>)

\* types[index], or Placeholder(index, None, None) on KeyError.
lookup_placeholder(types, index) ==
  IF index \in DOMAIN types THEN types[index] ELSE Placeholder(index, None, None)

\* The for loop over finditer and the leftover after it: i scans the text,
\* last_fencepost is where the text not yet appended starts.
RECURSIVE components_from(_, _, _, _)
components_from(message_text, types, i, last_fencepost) ==
  IF i > Len(message_text)
  THEN LET last_bit == SubSeq(message_text, last_fencepost, Len(message_text))
       IN IF last_bit # <<>> THEN <<Text(last_bit)>> ELSE <<>>
  ELSE LET n == placeholder_match(message_text, i)
       IN IF n = 0 THEN components_from(message_text, types, i + 1, last_fencepost)
          ELSE LET index == int_digits(SubSeq(message_text, i + 1, i + n - 2))
                   before_placeholder == SubSeq(message_text, last_fencepost, i - 1)
               IN <<Text(before_placeholder), lookup_placeholder(types, index)>>
                    \o components_from(message_text, types, i + n, i + n)

\* make_components(message_text), with self.current_comment_lines given.
make_components(message_text, comment_lines) ==
  components_from(message_text, parse_annotation(comment_lines), 1, 1)

(***************************************************************************)
(* The state of one call parse_messages_from_lines(lines).                 *)
(***************************************************************************)
VARIABLES
  lines,                  \* the argument: the raw lines, in order
  pos,                    \* how many items the iterator self.lines has yielded
  line_no,                \* self.line_no
  raw_line,               \* self.raw_line
  parsing,                \* self.parsing
  messages,               \* self.messages
  current_comment_lines,  \* self.current_comment_lines
  pc,                     \* "init": before Parser(); "parse": in the loop of
                          \* parse(), between two calls of item(); "value":
                          \* inside message(), at the head of the loop of
                          \* value(); "done": the call has ended
  name,                   \* the local `name` of message(), while pc = "value"
  value_chunks,           \* the local `value_chunks` of value()
  values,                 \* history: the local `value` of message(), for
                          \* each message appended so far
  outcome,                \* "" while running, "return", or the class of the
                          \* exception that ended the call
  error                   \* the ParseError raised, when outcome = "ParseError"

vars ==
  <<lines, pos, line_no, raw_line, parsing, messages, current_comment_lines,
    pc, name, value_chunks, values, outcome, error>>

\* The default of `filename or "<input>"`.
filename == "<input>"

NoError ==
  [filename |-> "", line_no |-> 0, line |-> <<>>, production |-> "", message |-> <<>>]

\* The state before Parser(lines) runs, for an input of the given lines.
InitWith(ls) ==
  /\ lines = ls
  /\ pos = 0
  /\ line_no = 0
  /\ raw_line = <<>>
  /\ parsing = FALSE
  /\ messages = <<>>
  /\ current_comment_lines = <<>>
  /\ pc = "init"
  /\ name = <<>>
  /\ value_chunks = <<>>
  /\ values = <<>>
  /\ outcome = ""
  /\ error = NoError

\* enumerate(ls) with its default start of 0.
enumerate_from_zero(ls, n) == <<n - 1, ls[n]>>

\* The n-th item of enumerate(ls, start=1).
enumerate(ls, n) == <<n, ls[n]>>

\* A line property that strips the raw line and leaves its escapes alone.
line_undecoded == Ok(rstrip(raw_line))

\* self.line, the property: its value, or the ValueError it raises.
line == logical_line(raw_line)

\* Parser.parse_error(message): production is the name of the caller.
parse_error(production, message) ==
  [filename |-> filename, line_no |-> line_no, line |-> line.val,
   production |-> production, message |-> message]

\* The message "expected `property=` here" (its backquotes cannot be
\* written in a TLA+ string).
expected_property == <<"expected 'property=' here">>

\* An exception leaves the call.
raise(exc, err) ==
  /\ outcome' = exc
  /\ error' = err
  /\ pc' = "done"
  /\ UNCHANGED <<lines, pos, line_no, raw_line, parsing, messages,
                 current_comment_lines, name, value_chunks, values>>

\* Parser.next_line: the next item of self.lines, or parsing = False.
next_line ==
  IF pos < Len(lines)
  THEN /\ pos' = pos + 1
       /\ line_no' = enumerate(lines, pos + 1)[1]
       /\ raw_line' = enumerate(lines, pos + 1)[2]
       /\ parsing' = parsing
  ELSE /\ parsing' = FALSE
       /\ UNCHANGED <<pos, line_no, raw_line>>

\* The end of message(): the Message is appended, the comments cleared.
append_message(n, value) ==
  /\ messages' = Append(messages, Message(n, make_components(value, current_comment_lines)))
  /\ values' = Append(values, value)
  /\ current_comment_lines' = <<>>

(***************************************************************************)
(* The actions.                                                            *)
(***************************************************************************)
\* Parser.__init__: next(self.lines) raises StopIteration on no lines.
Parser_init ==
  /\ pc = "init"
  /\ IF lines = <<>>
     THEN raise("StopIteration", NoError)
     ELSE /\ pos' = 1
          /\ line_no' = enumerate(lines, 1)[1]
          /\ raw_line' = enumerate(lines, 1)[2]
          /\ parsing' = TRUE
          /\ messages' = <<>>
          /\ current_comment_lines' = <<>>
          /\ pc' = "parse"
          /\ UNCHANGED <<lines, name, value_chunks, values, outcome, error>>

\* Parser.parse, once self.parsing is False: return self.messages.
parse_return ==
  /\ pc = "parse"
  /\ ~parsing
  /\ outcome' = "return"
  /\ pc' = "done"
  /\ UNCHANGED <<lines, pos, line_no, raw_line, parsing, messages,
                 current_comment_lines, name, value_chunks, values, error>>

\* self.line raises ValueError, in item() or in the loop of value().
line_ValueError ==
  /\ (pc = "parse" /\ parsing) \/ pc = "value"
  /\ line.exc # ""
  /\ raise(line.exc, NoError)

\* Parser.item -> Parser.comment
comment ==
  /\ pc = "parse" /\ parsing
  /\ line.exc = ""
  /\ startswith(line.val, <<"#">>)
  /\ current_comment_lines' = Append(current_comment_lines, line.val)
  /\ next_line
  /\ UNCHANGED <<lines, messages, pc, name, value_chunks, values, outcome, error>>

\* An empty line that leaves the pending comments in place.
empty_line_keeps_comments ==
  /\ pc = "parse" /\ parsing
  /\ line.exc = ""
  /\ line.val = <<>>
  /\ next_line
  /\ UNCHANGED <<lines, messages, current_comment_lines, pc, name, value_chunks,
                 values, outcome, error>>

\* Parser.item, the empty line.
empty_line ==
  /\ pc = "parse" /\ parsing
  /\ line.exc = ""
  /\ line.val = <<>>
  /\ current_comment_lines' = <<>>
  /\ next_line
  /\ UNCHANGED <<lines, messages, pc, name, value_chunks, values, outcome, error>>

\* Parser.item -> Parser.message, up to the call of value() or, for a
\* value on the line itself, to its end.
message ==
  /\ pc = "parse" /\ parsing
  /\ line.exc = ""
  /\ ~startswith(line.val, <<"#">>)
  /\ line.val # <<>>
  /\ isalpha(line.val[1])
  /\ LET p == partition(line.val, "=")
         rest == p[3]
     IN IF p[2] # <<"=">>
        THEN raise("ParseError", parse_error("message", expected_property))
        ELSE IF endswith(rest, <<BSLASH>>)
        THEN /\ next_line
             /\ name' = strip(p[1])
             /\ value_chunks' = <<>>
             /\ pc' = "value"
             /\ UNCHANGED <<lines, messages, current_comment_lines, values,
                            outcome, error>>
        ELSE /\ next_line
             /\ append_message(strip(p[1]), rstrip(rest))
             /\ UNCHANGED <<lines, pc, name, value_chunks, outcome, error>>

\* Parser.value, one iteration of its loop; the iteration that ends the
\* loop also ends message().
value ==
  /\ pc = "value"
  /\ Len(value_chunks) < MaxChunks
  /\ line.exc = ""
  /\ LET chunk == value_chunk(line.val)
         chunks == Append(value_chunks, chunk.val)
     IN IF chunk.exc # ""
        THEN raise("ParseError",
                   parse_error("replace_escape", <<"Unknown escape: ">> \o chunk.val))
        ELSE /\ next_line
             /\ IF has_continuation(line.val)
                THEN /\ value_chunks' = chunks
                     /\ UNCHANGED <<lines, messages, current_comment_lines, pc,
                                    name, values, outcome, error>>
                ELSE /\ append_message(name, value_join(chunks))
                     /\ pc' = "parse"
                     /\ name' = <<>>
                     /\ value_chunks' = <<>>
                     /\ UNCHANGED <<lines, outcome, error>>

\* Parser.item, the else branch: raise self.parse_error()
item_error ==
  /\ pc = "parse" /\ parsing
  /\ line.exc = ""
  /\ ~startswith(line.val, <<"#">>)
  /\ line.val # <<>>
  /\ ~isalpha(line.val[1])
  /\ raise("ParseError", parse_error("item", <<"Parse error">>))

Next ==
  \/ Parser_init
  \/ parse_return
  \/ line_ValueError
  \/ comment
  \/ empty_line
  \/ message
  \/ value
  \/ item_error

(***************************************************************************)
(* The inputs.  s("...") cannot be written in TLA+, so each line is spelt  *)
(* character by character.                                                 *)
(***************************************************************************)
\* Lines that exercise the line classification and the continuation.
Corpus ==
  { <<>>,                                        \* (empty)
    <<"#", "c">>,                                \* #c
    <<"k", "=", "v">>,                           \* k=v
    <<"j", " ", "=", "v", " ">>,                 \* j =v<space>
    <<"k", "=", BSLASH>>,                        \* k=\
    <<"j", "=", "a", BSLASH>>,                   \* j=a\
    <<" ", "v">>,                                \* <space>v
    <<"v", BSLASH>>,                             \* v\
    <<"k">>,                                     \* k
    <<"1", "=", "v">>,                           \* 1=v
    <<BSLASH, "q">>,                             \* \q
    <<BSLASH, "u", "0", "0", "g", "0">> }        \* \u00g0

\* Lines that exercise the escapes, the quotes and the \uXXXX escapes of
\* a value.
ValueCorpus ==
  { <<>>,                                                 \* (empty)
    <<"k", "=", BSLASH>>,                                 \* k=\
    <<"k", "=", QUOTE, QUOTE, BSLASH, "q">>,              \* k=''\q
    <<"k", "=", BSLASH, "n">>,                            \* k=\n
    <<"a", BSLASH, "n", BSLASH>>,                         \* a\n\
    <<BSLASH, "t", BSLASH, QUOTE, BSLASH, DQUOTE>>,       \* \t\'\"
    <<QUOTE, QUOTE, "a">>,                                \* ''a
    <<QUOTE, BSLASH>>,                                    \* '\
    <<QUOTE, "b">>,                                       \* 'b
    <<BSLASH, "q", "a">>,                                 \* \qa
    <<QUOTE, QUOTE, QUOTE>>,                              \* '''
    <<"e", BSLASH, "u", "0", "0", "2", "0">>,             \* e\u0020   (e, then a space)
    <<BSLASH, "u", "0", "0", "5", "c", "n">>,             \* \u005cn   (a backslash, then n)
    <<BSLASH, "u", "0", "0", "2", "3", "c">>,             \* \u0023c   (#c)
    <<BSLASH, "u", "0", "0", "g", "0">> }                 \* \u00g0

\* Lines that exercise the annotation comments and the placeholders.
AnnotationCorpus ==
  { <<>>,                                                          \* (empty)
    <<"#", " ", "1", ":", "t", "(", "c", ")", ",", "0", ":", "s">>, \* # 1:t(c),0:s
    <<"#", " ", "{", "0", "}", " ", "-", " ", "d">>,               \* # {0} - d
    <<"#", "0", ":", "s", ",", "x">>,                              \* #0:s,x
    <<"#", "0", ":", "s", ",", "a", ":", "t">>,                    \* #0:s,a:t
    <<"#", "c">>,                                                  \* #c
    <<"#", "0", ":", "s", ",", "0", ":", "t">>,                    \* #0:s,0:t
    <<"k", "=", BSLASH>>,                                          \* k=\
    <<"k", "=", "{", "1", "}", "a", "{", "0", "}", "{", "1", "}">>, \* k={1}a{0}{1}
    <<"k", "=", "a">>,                                             \* k=a
    <<"k", "=">>,                                                  \* k=
    <<"k", "=", "{", "0", "1", "}", "{", "0", "}">>,               \* k={01}{0}
    <<"k", "=", "{", "a", "}", "{", "}", "{", "0">>,               \* k={a}{}{0
    <<"{", "0", "}", "b", "{", "2", "}">>,                         \* {0}b{2}
    <<BSLASH, "u", "0", "0", "g", "0">> }                          \* \u00g0

\* Lines that exercise the \uXXXX escapes of the logical line: an escape
\* that decodes to a space, a #, a backslash or a letter, where the line
\* classification, the continuation and the value look at it.
UnicodeCorpus ==
  { <<>>,                                                 \* (empty)
    <<"#", "c">>,                                         \* #c
    <<"k", "=", BSLASH>>,                                 \* k=\
    <<"k", "=", "e", BSLASH, "u", "0", "0", "2", "0">>,   \* k=e\u0020  (k=e, then a space)
    <<"e", BSLASH, "u", "0", "0", "2", "0">>,             \* e\u0020    (e, then a space)
    <<"e", BSLASH, "u", "0", "0", "2", "0", " ">>,        \* e\u0020<space>
    <<BSLASH, "u", "0", "0", "2", "0", "e">>,             \* \u0020e    (a space, then e)
    <<BSLASH, "u", "0", "0", "2", "3", "c">>,             \* \u0023c    (#c)
    <<"a", BSLASH, "u", "0", "0", "5", "c">>,             \* a\u005c    (a, then a backslash)
    <<BSLASH, "u", "0", "0", "5", "c", "n">>,             \* \u005cn    (a backslash, then n)
    <<BSLASH, "u", "0", "0", "5", "C", "q">>,             \* \u005Cq    (a backslash, then q)
    <<BSLASH, "u", "0", "0", "6", "b", "=", "v">>,        \* \u006b=v   (k=v)
    <<BSLASH, "u", "0", "0", "g", "0">> }                 \* \u00g0

\* Lines that exercise the names of the messages.
NameCorpus ==
  { <<>>,                                                                       \* (empty)
    <<"#", "c">>,                                                               \* #c
    <<"k", "=", "v">>,                                                          \* k=v
    <<"c", "o", "m", "p", "i", "l", "e", "r", ".", "e", "r", "r", ".", "k", "=", "v">>,  \* compiler.err.k=v
    <<"c", "o", "m", "p", "i", "l", "e", ".", "m", "i", "s", "c", ".", "k", "=", "v">>,  \* compile.misc.k=v
    <<"c", "o", "m", "p", "i", "l", "e", "r", ".", "w", "a", "r", "n", " ", "=", BSLASH>>, \* compiler.warn =\
    <<"c", "o", "m", "p", "i", "l", "e", "r", "=", "v">>,                       \* compiler=v
    <<"c", "o", "m", "p", "i", "l", "e", "r", ".", "=", "v">>,                  \* compiler.=v
    <<"v">>,                                                                    \* v
    <<"1", "=", "v">>,                                                          \* 1=v
    <<BSLASH, "u", "0", "0", "g", "0">> }                                       \* \u00g0

\* Lines that exercise the declarations of an annotation: parentheticals
\* and long-form comments, for the same index and for different ones.
DeclarationCorpus ==
  { <<>>,                                                            \* (empty)
    <<"#", " ", "{", "1", "}", " ", "-", " ", "d">>,                 \* # {1} - d
    <<"#", " ", "{", "0", "}", " ", "-", " ", "e">>,                 \* # {0} - e
    <<"#", " ", "1", ":", "t", "(", "c", ")", ",", "0", ":", "s">>,  \* # 1:t(c),0:s
    <<"#", " ", "0", ":", " ", "s", " ", "t", " ", "(", "c", " ", "d", ")">>, \* # 0: s t (c d)
    <<"#", "0", ":", "s", ",", "0", ":", "t", "(", "c", ")">>,       \* #0:s,0:t(c)
    <<"#", "1", ":", "t">>,                                          \* #1:t
    <<"#", "c">>,                                                    \* #c
    <<"k", "=", BSLASH>>,                                            \* k=\
    <<"k", "=", "{", "1", "}", "a", "{", "0", "}">>,                 \* k={1}a{0}
    <<"{", "0", "}", "b">>,                                          \* {0}b
    <<"1", "=", "v">>,                                               \* 1=v
    <<BSLASH, "u", "0", "0", "g", "0">> }                            \* \u00g0

\* Lines that exercise the placement and the spelling of the {digits}
\* tokens of a value.
TokenCorpus ==
  { <<>>,                                                          \* (empty)
    <<"#", "0", ":", "s">>,                                        \* #0:s
    <<"k", "=", BSLASH>>,                                          \* k=\
    <<"k", "=", "{", "0", "1", "}", "{", "0", "}">>,               \* k={01}{0}
    <<"k", "=", "{", "1", "}", "a", "{", "0", "}", "{", "1", "}">>, \* k={1}a{0}{1}
    <<"k", "=", "{", "1", "0", "}", "{", "0", "0", "}">>,          \* k={10}{00}
    <<"k", "=", "{", "a", "}", "{", "}", "{", "0">>,               \* k={a}{}{0
    <<"{", "0", "}", "b", "{", "2", "}">>,                         \* {0}b{2}
    <<"k", "=", "a">>,                                             \* k=a
    <<"1", "=", "v">>,                                             \* 1=v
    <<BSLASH, "u", "0", "0", "g", "0">> }                          \* \u00g0

\* Every input of at most MaxLines lines over a set of lines.
Inputs(C) == UNION {[1..n -> C] : n \in 0..MaxLines}

Init == \E ls \in Inputs(Corpus) : InitWith(ls)

InitValue == \E ls \in Inputs(ValueCorpus) : InitWith(ls)

InitAnnotation == \E ls \in Inputs(AnnotationCorpus) : InitWith(ls)

InitUnicode == \E ls \in Inputs(UnicodeCorpus) : InitWith(ls)

InitName == \E ls \in Inputs(NameCorpus) : InitWith(ls)

InitDeclaration == \E ls \in Inputs(DeclarationCorpus) : InitWith(ls)

InitToken == \E ls \in Inputs(TokenCorpus) : InitWith(ls)

\* The parser on inputs that exercise the line classification.
Spec == Init /\ [][Next]_vars

\* The parser on inputs that exercise the assembly of a value.
SpecValue == InitValue /\ [][Next]_vars

\* The parser on inputs that exercise annotations and placeholders.
SpecAnnotation == InitAnnotation /\ [][Next]_vars

\* The parser on inputs that exercise the \uXXXX escapes.
SpecUnicode == InitUnicode /\ [][Next]_vars

\* The parser on inputs that exercise the names of the messages.
SpecName == InitName /\ [][Next]_vars

\* The parser on inputs that exercise the declarations of annotations.
SpecDeclaration == InitDeclaration /\ [][Next]_vars

\* The parser on inputs that exercise the tokens of a value.
SpecToken == InitToken /\ [][Next]_vars

(***************************************************************************)
(* Vocabulary of the properties.                                           *)
(***************************************************************************)
\* The driver is seeking an item: parse() is about to call item().
SeekingItem == pc = "parse" /\ parsing /\ line.exc = ""

\* A step appends a message.
MessageAppended == Len(messages') = Len(messages) + 1

Last(seq) == seq[Len(seq)]

\* The logical lines of the input (of an input all of whose lines decode).
LogicalLines == [i \in 1..Len(lines) |-> logical_line(lines[i]).val]

\* The placeholders among the components of a message.
PlaceholdersIn(m) ==
  {m.components[i] : i \in {j \in 1..Len(m.components) : is_placeholder(m.components[j])}}

(***************************************************************************)
(* C1.  parse terminates on every finite input: when the input ends while  *)
(* a value is still being continued, the Value Assembler stops at the end  *)
(* of input instead of looping.  As a step property: an iteration of the   *)
(* loop of value() that finds the input exhausted leaves the loop.         *)
(***************************************************************************)
C1_ValueStopsAtEndOfInput == [][(pc = "value" /\ ~parsing') => pc' # "value"]_vars

(***************************************************************************)
(* C2.  When parse succeeds, the messages are exactly the top-level        *)
(* key=value entries of the input, one message per entry, in input order:  *)
(* comment lines and blank lines give no message, and the lines a          *)
(* continued value runs over are not entries of their own.                 *)
(***************************************************************************)
\* The last line of the value that continues from line j on: the first
\* line from j that does not end with a backslash, or the last line.
RECURSIVE ValueEnd(_, _)
ValueEnd(ls, j) ==
  IF j >= Len(ls) \/ ~endswith(ls[j], <<BSLASH>>) THEN j ELSE ValueEnd(ls, j + 1)

\* The keys of the top-level entries of the logical lines ls, from line i.
RECURSIVE EntryKeys(_, _)
EntryKeys(ls, i) ==
  IF i > Len(ls) THEN <<>>
  ELSE IF ls[i] = <<>> \/ ls[i][1] = "#" THEN EntryKeys(ls, i + 1)
  ELSE LET p == partition(ls[i], "=")
       IN IF endswith(p[3], <<BSLASH>>)
          THEN <<strip(p[1])>> \o EntryKeys(ls, ValueEnd(ls, i + 1) + 1)
          ELSE <<strip(p[1])>> \o EntryKeys(ls, i + 1)

C2_OneMessagePerEntry ==
  outcome = "return" =>
    [i \in 1..Len(messages) |-> messages[i].name] = EntryKeys(LogicalLines, 1)

\* Two entries with different keys, the first continued over a line.
C2_Witness ==
  /\ outcome = "return"
  /\ Len(lines) = 3
  /\ Len(messages) = 2
  /\ messages[1].name # messages[2].name
  /\ endswith(LogicalLines[1], <<BSLASH>>)

(***************************************************************************)
(* C3.  parse_messages_from_lines has exactly two outcomes on every finite *)
(* input, the empty one included: it returns the message list, or it       *)
(* raises ParseError.  No other exception leaves the call.                 *)
(***************************************************************************)
C3_ReturnsOrParseError == outcome \in {"", "return", "ParseError"}

(***************************************************************************)
(* C4.  Whenever the driver, seeking an item, is at a logical line that    *)
(* does not start with #, is not empty and does not start with a letter,   *)
(* the call raises a ParseError whose line_no is the 1-based number of     *)
(* that line, whose line is that logical line and whose production is      *)
(* "item"; no message list is returned.                                    *)
(***************************************************************************)
InvalidLine(l) == l # <<>> /\ l[1] # "#" /\ ~isalpha(l[1])

C4_InvalidLineRaises ==
  [][(SeekingItem /\ InvalidLine(line.val)) =>
       /\ outcome' = "ParseError"
       /\ pc' = "done"
       /\ error'.line_no = pos
       /\ logical_line(lines[error'.line_no]).val = error'.line
       /\ error'.line = line.val
       /\ error'.production = "item"]_vars

\* The third line is the invalid one, after a message was parsed.
C4_Witness ==
  /\ outcome = "ParseError"
  /\ error.production = "item"
  /\ error.line_no = 3
  /\ Len(messages) = 1
  /\ InvalidLine(error.line)

(***************************************************************************)
(* C5.  In every message value, on the key= line or on continuation lines, *)
(* a backslash followed by a character other than n, t, ' or " makes the   *)
(* parse fail with a ParseError, and the escapes \n, \t, \' and \" are     *)
(* decoded.  So a step that reads a part of a value with an unknown escape *)
(* raises ParseError, and no value of a message keeps a backslash escape.  *)
(***************************************************************************)
KnownEscapes == {"n", "t", QUOTE, DQUOTE}

\* The text s has a backslash followed by a character that is no known
\* escape, the escapes being read left to right.
RECURSIVE HasUnknownEscape(_)
HasUnknownEscape(s) ==
  IF Len(s) < 2 THEN FALSE
  ELSE IF s[1] = BSLASH
       THEN s[2] \notin KnownEscapes \/ HasUnknownEscape(SubSeq(s, 3, Len(s)))
       ELSE HasUnknownEscape(Tail(s))

\* The text s has a backslash followed by a character.
HasEscape(s) == \E j \in 1..(Len(s) - 1) : s[j] = BSLASH

\* The line is a key=value line.
IsEntryLine(l) == l # <<>> /\ isalpha(l[1]) /\ contains(l, "=")

\* The part of a value the current line holds: what follows the = of a
\* key= line, or a continuation line, without the continuation backslash.
ValuePart ==
  IF pc = "value" THEN removesuffix(lstrip(line.val), <<BSLASH>>)
  ELSE removesuffix(partition(line.val, "=")[3], <<BSLASH>>)

AtValuePart ==
  /\ line.exc = ""
  /\ \/ pc = "value"
     \/ SeekingItem /\ IsEntryLine(line.val)

C5_EscapesDecodedOrRejected ==
  [][/\ (AtValuePart /\ HasUnknownEscape(ValuePart)) => outcome' = "ParseError"
     /\ MessageAppended => ~HasEscape(Last(values'))]_vars

(***************************************************************************)
(* C6.  Whenever the driver begins message production on a logical line    *)
(* that starts with a letter and holds no =, the call raises a ParseError  *)
(* with the message "expected `property=` here" and the number of that     *)
(* line, and no message is appended for it.                                *)
(***************************************************************************)
C6_MissingEqualsRaises ==
  [][(SeekingItem /\ line.val # <<>> /\ isalpha(line.val[1]) /\ ~contains(line.val, "=")) =>
       /\ outcome' = "ParseError"
       /\ pc' = "done"
       /\ error'.message = expected_property
       /\ error'.line_no = pos
       /\ error'.line = line.val
       /\ messages' = messages]_vars

\* The line without = is the second one, after a comment.
C6_Witness ==
  /\ outcome = "ParseError"
  /\ error.message = expected_property
  /\ error.production = "message"
  /\ error.line_no = 2
  /\ ~contains(error.line, "=")
  /\ current_comment_lines # <<>>

(***************************************************************************)
(* C7.  Doubled single quotes of a raw value always render as one single   *)
(* quote: for every message, value on the key= line or continued, the      *)
(* text of the message is its assembled value with each '' pair collapsed. *)
(***************************************************************************)
\* The assembled value of the message a step appends, before the collapse:
\* what follows the = of a one-line entry, or the chunks of a continued one.
AssembledValue ==
  IF pc = "value" THEN join(Append(value_chunks, value_chunk(line.val).val))
  ELSE rstrip(partition(line.val, "=")[3])

CollapseQuotes(s) == replace(s, <<QUOTE, QUOTE>>, <<QUOTE>>)

C7_DoubledQuotesCollapse ==
  [][MessageAppended => text(Last(messages')) = CollapseQuotes(AssembledValue)]_vars

(***************************************************************************)
(* C8.  For every message, placeholders holds exactly one entry per        *)
(* distinct index among the Placeholder components, each of them one of    *)
(* those components, in strictly ascending order of index; n_placeholders  *)
(* is the number of distinct indices.                                      *)
(***************************************************************************)
PlaceholdersUniqueSorted(m) ==
  LET ps == placeholders(m)
      indices == {c.index : c \in PlaceholdersIn(m)}
  IN /\ {ps[i].index : i \in 1..Len(ps)} = indices
     /\ \A i \in 1..Len(ps) : ps[i] \in PlaceholdersIn(m)
     /\ \A i, j \in 1..Len(ps) : i < j => ps[i].index < ps[j].index
     /\ Len(ps) = Cardinality(indices)
     /\ n_placeholders(m) = Cardinality(indices)

C8_PlaceholdersUniqueSorted ==
  \A i \in 1..Len(messages) : PlaceholdersUniqueSorted(messages[i])

\* A message whose text has index 1 before index 0, and index 1 twice.
C8_Witness ==
  \E i \in 1..Len(messages) :
    LET c == messages[i].components
    IN /\ \E a, b, d \in 1..Len(c) :
            /\ a < b /\ b < d
            /\ is_placeholder(c[a]) /\ is_placeholder(c[b]) /\ is_placeholder(c[d])
            /\ c[a].index = 1 /\ c[b].index = 0 /\ c[d].index = 1
       /\ n_placeholders(messages[i]) = 2

(***************************************************************************)
(* C9.  For a message whose value holds no {digits} token, components is   *)
(* the one literal text equal to the value, or is empty when the value is  *)
(* the empty string, and placeholders is empty.                            *)
(***************************************************************************)
\* The text s holds a token: "{", one or more digits, "}".
HasToken(s) ==
  \E a, b \in 1..Len(s) :
    /\ a + 1 < b
    /\ s[a] = "{"
    /\ s[b] = "}"
    /\ \A j \in (a + 1)..(b - 1) : isdigit(s[j])

C9_NoTokenOneLiteral ==
  \A i \in 1..Len(messages) :
    ~HasToken(values[i]) =>
      /\ messages[i].components =
           IF values[i] = <<>> THEN <<>> ELSE <<Text(values[i])>>
      /\ placeholders(messages[i]) = <<>>

\* A value with braces that form no token, and an empty value.
C9_Witness ==
  /\ Len(messages) = 2
  /\ contains(values[1], "{") /\ contains(values[1], "}") /\ ~HasToken(values[1])
  /\ values[2] = <<>>

(***************************************************************************)
(* C10.  When the last comment line before a message holds a ":" but one   *)
(* of its comma-separated entries has no ":" or a left side that is no     *)
(* integer, parse_annotation returns the empty mapping (the well-formed    *)
(* entries of the line are not kept), every placeholder of the message has *)
(* type and comment unset, and the parse goes on without raising.          *)
(***************************************************************************)
\* The text is an integer: an optional sign, then digits.
IsInteger(s) ==
  LET body == IF s # <<>> /\ s[1] \in {"+", "-"} THEN Tail(s) ELSE s
  IN body # <<>> /\ \A j \in 1..Len(body) : isdigit(body[j])

\* The last of the comment lines holds ":" and has a malformed entry.
MalformedAnnotation(ls) ==
  /\ ls # <<>>
  /\ LET annotation == lstrip(removeprefix(Last(ls), <<"#">>))
         entries == split(annotation, ",")
     IN /\ contains(annotation, ":")
        /\ \E e \in 1..Len(entries) :
             \/ ~contains(entries[e], ":")
             \/ ~IsInteger(strip(partition(entries[e], ":")[1]))

\* The last comment line has a well-formed entry for index k.
DeclaresIndex(ls, k) ==
  /\ ls # <<>>
  /\ LET entries == split(lstrip(removeprefix(Last(ls), <<"#">>)), ",")
     IN \E e \in 1..Len(entries) :
          LET left == strip(partition(entries[e], ":")[1])
          IN contains(entries[e], ":") /\ IsInteger(left) /\ py_int(left).val = k

C10_MalformedAnnotationDropped ==
  [][(MessageAppended /\ MalformedAnnotation(current_comment_lines)) =>
       /\ parse_annotation(current_comment_lines) = <<>>
       /\ \A p \in PlaceholdersIn(Last(messages')) : p.type_ = None /\ p.comment = None
       /\ outcome' = ""
       /\ pc' = "parse"]_vars

\* A malformed annotation with a well-formed entry for index 0, a message
\* that uses {0}, and a second message parsed after it.
C10_Witness ==
  /\ outcome = "return"
  /\ Len(lines) = 3
  /\ Len(messages) = 2
  /\ MalformedAnnotation(<<LogicalLines[1]>>)
  /\ DeclaresIndex(<<LogicalLines[1]>>, 0)
  /\ \E p \in PlaceholdersIn(messages[1]) : p.index = 0 /\ p.type_ = None

(***************************************************************************)
(* C11.  For every message whose value ends with a \u0020 escape, with     *)
(* nothing after it on the line, the escape is decoded to a space that is  *)
(* kept: the rendered text of the message ends with that space.  As a step *)
(* property: a step that appends a message while reading a raw line that   *)
(* ends (trailing whitespace aside) with \u0020 appends a message whose    *)
(* text ends with a space.                                                 *)
(***************************************************************************)
\* The escape \u0020, as it is spelt in a raw line.
EscapedSpace == <<BSLASH, "u", "0", "0", "2", "0">>

C11_EscapedSpaceKept ==
  [][(MessageAppended /\ endswith(rstrip(raw_line), EscapedSpace))
       => endswith(text(Last(messages')), <<" ">>)]_vars

(***************************************************************************)
(* C12.  For every message returned by parse, the level view yields the    *)
(* second dot-separated segment of its name: it never fails for a name the *)
(* parser accepted as a key.                                               *)
(***************************************************************************)
\* The text between the first dot of a name and its second dot (or its
\* end), read off the name by position.
SecondSegment(n) ==
  LET rest == SubSeq(n, find(n, ".") + 1, Len(n))
  IN IF contains(rest, ".") THEN SubSeq(rest, 1, find(rest, ".") - 1) ELSE rest

C12_LevelIsSecondSegment ==
  outcome = "return" =>
    \A i \in 1..Len(messages) :
      level(messages[i]) = Ok(SecondSegment(messages[i].name))

(***************************************************************************)
(* C13.  For a declaration entry `index: type (text)` the comment of the   *)
(* placeholder is the parenthetical text, whatever long-form line          *)
(* `# {index} - text` there is for that index; for an entry without a      *)
(* parenthetical the comment is the long-form text recovered for the index *)
(* from the comment lines before the last one, and is unset when there is  *)
(* none; the type is the trimmed text before the "(".  It is stated of the *)
(* placeholders of each message appended under a well-formed annotation.   *)
(***************************************************************************)
\* The entry that declares index k: the last well-formed one, trimmed.
EntryFor(ls, k) ==
  LET entries == split(lstrip(removeprefix(Last(ls), <<"#">>)), ",")
      declares(e) ==
        /\ contains(entries[e], ":")
        /\ IsInteger(strip(partition(entries[e], ":")[1]))
        /\ py_int(partition(entries[e], ":")[1]).val = k
      e == CHOOSE e \in 1..Len(entries) :
             declares(e) /\ \A f \in 1..Len(entries) : declares(f) => f <= e
  IN strip(entries[e])

\* What follows the ":" of an entry.
Description(entry) == SubSeq(entry, find(entry, ":") + 1, Len(entry))

HasParenthetical(entry) == contains(Description(entry), "(")

\* The text between the first "(" of an entry and its closing ")".
ParentheticalText(entry) ==
  LET d == Description(entry)
      inner == SubSeq(d, find(d, "(") + 1, Len(d))
  IN IF inner # <<>> /\ Last(inner) = ")" THEN SubSeq(inner, 1, Len(inner) - 1) ELSE inner

\* The trimmed text of an entry between its ":" and its "(" (or its end).
TypeText(entry) ==
  LET d == Description(entry)
  IN IF contains(d, "(") THEN strip(SubSeq(d, 1, find(d, "(") - 1)) ELSE strip(d)

\* The long-form text for index k in the comment lines before the last
\* one (that of the last such line), or None.
LongFormText(ls, k) ==
  LET at == {i \in 1..(Len(ls) - 1) :
               long_comment_match(ls[i]) # <<>> /\ long_comment_match(ls[i])[1] = k}
  IN IF at = {} THEN None
     ELSE long_comment_match(ls[CHOOSE i \in at : \A j \in at : j <= i])[2]

\* The comment lines hold a long-form line for index k before the last.
HasLongForm(ls, k) == LongFormText(ls, k) # None

C13_DeclaredTypeAndComment ==
  [][(MessageAppended /\ current_comment_lines # <<>>
        /\ ~MalformedAnnotation(current_comment_lines)) =>
       \A p \in PlaceholdersIn(Last(messages')) :
         DeclaresIndex(current_comment_lines, p.index) =>
           LET entry == EntryFor(current_comment_lines, p.index)
           IN /\ p.type_ = TypeText(entry)
              /\ p.comment = IF HasParenthetical(entry) THEN ParentheticalText(entry)
                             ELSE LongFormText(current_comment_lines, p.index)]_vars

\* A message was appended under an annotation with a parenthetical entry
\* for an index that also has a long-form line, and with an entry without
\* a parenthetical for an index that has none: the message uses both.
C13_Witness ==
  /\ Len(messages) = 1
  /\ Len(lines) = 3
  /\ LET ls == SubSeq(LogicalLines, 1, 2)
     IN /\ ~MalformedAnnotation(ls)
        /\ DeclaresIndex(ls, 1) /\ HasParenthetical(EntryFor(ls, 1)) /\ HasLongForm(ls, 1)
        /\ DeclaresIndex(ls, 0) /\ ~HasParenthetical(EntryFor(ls, 0)) /\ ~HasLongForm(ls, 0)
        /\ {p.index : p \in PlaceholdersIn(messages[1])} = {0, 1}
        /\ \E p \in PlaceholdersIn(messages[1]) : p.index = 1 /\ p.comment = <<"c">>
        /\ \E p \in PlaceholdersIn(messages[1]) : p.index = 0 /\ p.comment = None

(***************************************************************************)
(* C14.  The Component Splitter appends only non-empty literal spans: in   *)
(* the components of every message no literal-text entry is the empty      *)
(* string, also when the value starts with a placeholder or when two       *)
(* placeholders are adjacent.                                              *)
(***************************************************************************)
C14_NoEmptyLiteral ==
  \A i \in 1..Len(messages) :
    \A j \in 1..Len(messages[i].components) :
      LET item == messages[i].components[j]
      IN ~is_placeholder(item) => item.text # <<>>

(***************************************************************************)
(* C15.  The annotation of a message is built from exactly the comment     *)
(* lines that precede it contiguously.  When a message is built the        *)
(* pending comment buffer holds, in order, the # lines seen since the most *)
(* recent blank line or the most recent message, whichever is later; the   *)
(* buffer is empty right after each blank line and right after each        *)
(* message.  The buffer is compared, before every step of the parse, with  *)
(* the comments read off the input by an independent scan.                 *)
(***************************************************************************)
\* What each of the logical lines ls, from line i on, is at the top level:
\* a comment, a blank line, the key line of an entry, or a line that
\* continues the value of the entry above.
RECURSIVE LineKinds(_, _)
LineKinds(ls, i) ==
  IF i > Len(ls) THEN <<>>
  ELSE IF ls[i] = <<>> THEN <<"blank">> \o LineKinds(ls, i + 1)
  ELSE IF ls[i][1] = "#" THEN <<"comment">> \o LineKinds(ls, i + 1)
  ELSE IF endswith(partition(ls[i], "=")[3], <<BSLASH>>) /\ i < Len(ls)
       THEN <<"key">> \o [j \in 1..(ValueEnd(ls, i + 1) - i) |-> "continuation"]
              \o LineKinds(ls, ValueEnd(ls, i + 1) + 1)
       ELSE <<"key">> \o LineKinds(ls, i + 1)

\* The key line of the entry that line n belongs to.
KeyLine(kinds, n) ==
  CHOOSE m \in 1..n : kinds[m] = "key" /\ \A j \in (m + 1)..n : kinds[j] # "key"

\* The comments that are pending once the first n lines are read: the
\* comment lines at the end of these n lines, or, in the middle of an
\* entry (inEntry), those right before its key line; kinds is what the
\* lines are.
RECURSIVE PendingComments(_, _, _, _)
PendingComments(ls, kinds, n, inEntry) ==
  IF n = 0 THEN <<>>
  ELSE IF kinds[n] = "comment"
       THEN Append(PendingComments(ls, kinds, n - 1, FALSE), ls[n])
       ELSE IF kinds[n] \in {"key", "continuation"} /\ inEntry
            THEN PendingComments(ls, kinds, KeyLine(kinds, n) - 1, FALSE)
            ELSE <<>>

\* The number of lines read so far.
Consumed == IF parsing THEN pos - 1 ELSE Len(lines)

C15_CommentsPrecedeContiguously ==
  [][LET pending == PendingComments(LogicalLines, LineKinds(LogicalLines, 1),
                                    Consumed, pc = "value")
     IN /\ pc \in {"parse", "value"} => current_comment_lines = pending
        /\ MessageAppended =>
             /\ Last(messages').components = make_components(Last(values'), pending)
             /\ current_comment_lines' = <<>>
        /\ (SeekingItem /\ line.val = <<>>) => current_comment_lines' = <<>>]_vars

\* An annotation for index 0, a blank line, then a message that uses {0}:
\* its placeholder has no type.
C15_Witness ==
  /\ Len(lines) = 3
  /\ LineKinds(LogicalLines, 1) = <<"comment", "blank", "key">>
  /\ ~MalformedAnnotation(<<LogicalLines[1]>>)
  /\ DeclaresIndex(<<LogicalLines[1]>>, 0)
  /\ Len(messages) = 1
  /\ \E p \in PlaceholdersIn(messages[1]) : p.index = 0 /\ p.type_ = None

(***************************************************************************)
(* C16.  After message production returns, the reader is at the first line *)
(* after the value (or at the end of the input), so over a whole parse     *)
(* every input line is consumed exactly once, in order, by exactly one of  *)
(* comment, blank line, message key line or value continuation: no line is *)
(* skipped and none is processed twice.  As a step property: every step    *)
(* that processes a line (a comment, a blank line, a key line or a chunk   *)
(* of a value) processes the line at the reader's position while that line *)
(* is still unread, and leaves the reader one line further, or at the end  *)
(* of the input when the line was the last.                                *)
(***************************************************************************)
\* A step of comment, empty_line, message or value that does not raise.
LineProcessed == pc \in {"parse", "value"} /\ pc' # "done"

C16_EachLineConsumedOnce ==
  [][LineProcessed =>
       /\ parsing
       /\ raw_line = lines[pos]
       /\ \/ pos' = pos + 1 /\ parsing'
          \/ pos = Len(lines) /\ pos' = pos /\ ~parsing']_vars

(***************************************************************************)
(* C17.  The collapse of doubled quotes applied to an assembled value is   *)
(* idempotent: applying the collapse again to the collapsed text changes   *)
(* nothing, for every text, runs of three or more consecutive single       *)
(* quotes included.  It is stated of the value of each message that the    *)
(* Value Assembler returns.                                                *)
(***************************************************************************)
\* A step in which value() returns and message() appends the message.
ValueReturned == pc = "value" /\ MessageAppended

C17_CollapseIdempotent ==
  [][ValueReturned => CollapseQuotes(Last(values')) = Last(values')]_vars

\* The text holds a run of three or more consecutive single quotes.
HasTripleQuote(s) ==
  \E i \in 1..(Len(s) - 2) : s[i] = QUOTE /\ s[i + 1] = QUOTE /\ s[i + 2] = QUOTE

\* C17, amended: the collapse is idempotent exactly on the texts that hold
\* no run of three or more consecutive single quotes; after a longer run a
\* doubled quote is left, which a second collapse would change.
C17_CollapseIdempotentUpToPairs ==
  [][ValueReturned =>
       /\ Last(values') = CollapseQuotes(AssembledValue)
       /\ (CollapseQuotes(Last(values')) = Last(values'))
            <=> ~HasTripleQuote(AssembledValue)]_vars

\* A continued value with a doubled quote and no longer run was collapsed.
C17_Witness ==
  /\ outcome = "return"
  /\ Len(lines) = 2
  /\ Len(values) = 1
  /\ endswith(LogicalLines[1], <<BSLASH>>)
  /\ \E i \in 1..(Len(LogicalLines[2]) - 1) :
       LogicalLines[2][i] = QUOTE /\ LogicalLines[2][i + 1] = QUOTE
  /\ ~HasTripleQuote(LogicalLines[2])
  /\ values[1] # LogicalLines[2]
  /\ CollapseQuotes(values[1]) = values[1]

(***************************************************************************)
(* C18.  In every logical line each \u followed by four hex digits is      *)
(* replaced by exactly one character before any other processing of that   *)
(* line: the line classification, the continuation test, the stripping of  *)
(* leading whitespace and the decoding of the escapes of a value all       *)
(* operate on the decoded line, so a decoded character is treated exactly  *)
(* like the same character written literally.                              *)
(***************************************************************************)
\* The number of \u escapes with four hex digits in s, left to right.
RECURSIVE EscapeCount(_)
EscapeCount(s) ==
  IF s = <<>> THEN 0
  ELSE IF Len(s) >= 6 /\ s[1] = BSLASH /\ s[2] = "u" /\ \A i \in 3..6 : ishex(s[i])
       THEN 1 + EscapeCount(SubSeq(s, 7, Len(s)))
       ELSE EscapeCount(Tail(s))

\* The reader is at a raw line that decodes, and a stage is about to
\* process it.
AtDecodableLine ==
  /\ pc \in {"parse", "value"}
  /\ pc = "parse" => parsing
  /\ logical_line(raw_line).exc = ""

\* What the stages do with the decoded line d: the line classification
\* and the continuation test of a key line, and, in a value, the chunk
\* (leading whitespace stripped, escapes decoded) and the continuation
\* test.
StagesOperateOn(d) ==
  LET key == SubSeq(d, 1, find(d, "=") - 1)
      rest == SubSeq(d, find(d, "=") + 1, Len(d))
      chunk == sub_escape(removesuffix(lstrip(d), <<BSLASH>>))
  IN /\ pc = "parse" =>
          IF d = <<>>
          THEN current_comment_lines' = <<>> /\ messages' = messages /\ pc' = "parse"
          ELSE IF d[1] = "#"
          THEN current_comment_lines' = Append(current_comment_lines, d) /\ pc' = "parse"
          ELSE IF ~isalpha(d[1])
          THEN outcome' = "ParseError" /\ error'.production = "item"
          ELSE IF ~contains(d, "=")
          THEN outcome' = "ParseError" /\ error'.production = "message"
          ELSE IF Last(d) = BSLASH
          THEN pc' = "value" /\ name' = strip(key) /\ messages' = messages
          ELSE /\ MessageAppended
               /\ Last(messages').name = strip(key)
               /\ Last(values') = rstrip(rest)
     /\ pc = "value" =>
          IF chunk.exc # ""
          THEN outcome' = "ParseError" /\ error'.production = "replace_escape"
          ELSE IF d # <<>> /\ Last(d) = BSLASH
          THEN pc' = "value" /\ value_chunks' = Append(value_chunks, chunk.val)
          ELSE /\ MessageAppended
               /\ Last(values') = CollapseQuotes(join(Append(value_chunks, chunk.val)))

\* Written literally, the decoded line reads as itself.
ReadsAsItself(d) == logical_line(d) = Ok(d)

C18_DecodedLikeLiteral ==
  [][AtDecodableLine =>
       /\ StagesOperateOn(logical_line(raw_line).val)
       /\ ReadsAsItself(logical_line(raw_line).val)]_vars

\* C18, amended: each \u followed by four hex digits is replaced by exactly
\* one character after the trailing whitespace of the raw line is removed
\* and before any other processing: the four stages operate on the decoded
\* line.  (A decoded whitespace character at the end of a line is
\* therefore kept where a literal one is removed.)
C18_StagesOperateOnDecodedLine ==
  [][AtDecodableLine =>
       /\ Len(logical_line(raw_line).val)
            = Len(rstrip(raw_line)) - 5 * EscapeCount(rstrip(raw_line))
       /\ StagesOperateOn(logical_line(raw_line).val)]_vars

\* A value continued by a backslash written as \u005c, whose next line
\* spells the escape of a newline with \u005c: the value is a, newline.
C18_Witness ==
  /\ outcome = "return"
  /\ Len(lines) = 3
  /\ lines[2] = <<"a", BSLASH, "u", "0", "0", "5", "c">>
  /\ lines[3] = <<BSLASH, "u", "0", "0", "5", "c", "n">>
  /\ Len(messages) = 1
  /\ values[1] = <<"a", NEWLINE>>

(***************************************************************************)
(* C19.  When a value references a placeholder index that the well-formed  *)
(* annotation does not declare, or the message has no annotation at all,   *)
(* that placeholder is emitted with type and comment both unset, the parse *)
(* does not fail, and every other placeholder of the same message whose    *)
(* index is declared keeps its declared type and comment at each of its    *)
(* occurrences.                                                            *)
(***************************************************************************)
\* The comment lines are no annotation at all, or a well-formed one.
NoneOrWellFormed(ls) == ls = <<>> \/ ~MalformedAnnotation(ls)

\* The type and comment that the annotation declares for index k.
DeclaredType(ls, k) == TypeText(EntryFor(ls, k))

DeclaredComment(ls, k) ==
  IF HasParenthetical(EntryFor(ls, k)) THEN ParentheticalText(EntryFor(ls, k))
  ELSE LongFormText(ls, k)

\* The components at which a message has a placeholder.
Occurrences(m) == {j \in 1..Len(m.components) : is_placeholder(m.components[j])}

C19_UndeclaredIndexUnset ==
  [][(MessageAppended /\ NoneOrWellFormed(current_comment_lines)) =>
       /\ outcome' = ""
       /\ pc' = "parse"
       /\ \A j \in Occurrences(Last(messages')) :
            LET p == Last(messages').components[j]
            IN IF DeclaresIndex(current_comment_lines, p.index)
               THEN /\ p.type_ = DeclaredType(current_comment_lines, p.index)
                    /\ p.comment = DeclaredComment(current_comment_lines, p.index)
               ELSE p.type_ = None /\ p.comment = None]_vars

\* A message under a well-formed annotation uses an index that is declared
\* and one that is not; the parse went on and returned.
C19_Witness ==
  /\ outcome = "return"
  /\ Len(messages) = 1
  /\ Len(lines) = 3
  /\ ~MalformedAnnotation(<<LogicalLines[1]>>)
  /\ DeclaresIndex(<<LogicalLines[1]>>, 0)
  /\ ~DeclaresIndex(<<LogicalLines[1]>>, 2)
  /\ \E j \in Occurrences(messages[1]) :
       /\ messages[1].components[j].index = 2
       /\ messages[1].components[j].type_ = None
       /\ messages[1].components[j].comment = None
  /\ \E j \in Occurrences(messages[1]) :
       /\ messages[1].components[j].index = 0
       /\ messages[1].components[j].type_ = <<"s">>

(***************************************************************************)
(* C20.  Round trip: for every assembled value, concatenating the          *)
(* components that the Component Splitter produces, each placeholder       *)
(* rendered as {index}, reproduces the value exactly: str(message) equals  *)
(* the value, for every placement and spelling of the {digits} tokens.     *)
(***************************************************************************)
C20_RoundTrip ==
  [][MessageAppended => text(Last(messages')) = Last(values')]_vars

\* The length of the token at the start of s: "{", digits, "}"; or 0.
TokenLength(s) ==
  IF \E b \in 3..Len(s) : s[1] = "{" /\ s[b] = "}" /\ \A j \in 2..(b - 1) : isdigit(s[j])
  THEN CHOOSE b \in 3..Len(s) : s[1] = "{" /\ s[b] = "}" /\ \A j \in 2..(b - 1) : isdigit(s[j])
  ELSE 0

\* s with the digits of each token replaced by the decimal spelling of
\* the number they spell.
RECURSIVE CanonicalTokens(_)
CanonicalTokens(s) ==
  IF s = <<>> THEN <<>>
  ELSE IF TokenLength(s) > 0
       THEN <<"{">> \o str_int(int_digits(SubSeq(s, 2, TokenLength(s) - 1))) \o <<"}">>
              \o CanonicalTokens(SubSeq(s, TokenLength(s) + 1, Len(s)))
       ELSE <<Head(s)>> \o CanonicalTokens(Tail(s))

\* No token of s has a leading zero before another digit.
NoLeadingZero(s) ==
  \A a \in 1..(Len(s) - 3) :
    ~(s[a] = "{" /\ s[a + 1] = "0" /\ TokenLength(SubSeq(s, a, Len(s))) > 3)

\* C20, amended: the rendering reproduces the value with the digits of
\* each token replaced by the decimal spelling of their number, so it
\* reproduces the value exactly when every token is spelt without leading
\* zeros; a token like {01} is rendered {1}.
C20_RoundTripUpToSpelling ==
  [][MessageAppended =>
       /\ text(Last(messages')) = CanonicalTokens(Last(values'))
       /\ NoLeadingZero(Last(values')) => text(Last(messages')) = Last(values')]_vars

\* A value with three tokens, two of them adjacent, spelt without leading
\* zeros: the text of the message is the value.
C20_Witness ==
  /\ Len(messages) = 1
  /\ Cardinality(Occurrences(messages[1])) = 3
  /\ NoLeadingZero(values[1])
  /\ text(messages[1]) = values[1]

==========================================================================
